---- MODULE Spec2Model ----
(***************************************************************************)
(* naptan-map: the pipeline of app/main.py and its two entry points        *)
(* (the command line block of main.py and lambda_function.lambda_handler). *)
(*                                                                         *)
(* Text is modelled as a sequence of tokens: a token is a word ("stop_id", *)
(* "A"), the delimiter "," or the line terminator "\n".  str.split(",")    *)
(* is computed on those sequences, so a field keeps a trailing "\n" as it  *)
(* does in the program.                                                    *)
(*                                                                         *)
(* A registry row carries the columns the filtering loop branches on       *)
(* (ATCOCode, Longitude, Latitude, BusStopType, Status); the three purely  *)
(* descriptive columns copied into the properties are left out.            *)
(***************************************************************************)
EXTENDS Integers, Sequences, FiniteSets, TLC

\* ---------------------------------------------------------------- bounds
\* Longest registry table SpecFilter loads.
MaxRows == 2
\* Most columns of a stop_times.txt line, most data lines of the file.
MaxCols == 2
MaxLines == 2
\* The progress period of main.py:122 (20_000 rows), scaled down so that the
\* bounded tables reach it.
ProgressEvery == 2

\* ---------------------------------------------------------------- values
NaN == "NaN"
None == "None"

ATCOCodes == {<<"A">>, <<"B">>}
BusStopTypes == {"MKD", "CUS", "BCT"}
Statuses == {"active", "inactive"}
Longitudes == {NaN, "-3.19"}
Latitudes == {NaN, "55.95"}

\* Rows that pass the selection of main.py:83, with every code and coordinate.
CandidateRows ==
  [ATCOCode : ATCOCodes, Longitude : Longitudes, Latitude : Latitudes,
   BusStopType : {"MKD", "CUS"}, Status : {"active"}]

\* Rows that fail it, by type, by status or by both: each with a code and
\* coordinates that would let it through the rest of the loop.
OtherRows ==
  [ATCOCode : {<<"A">>}, Longitude : {"-3.19"}, Latitude : {"55.95"},
   BusStopType : BusStopTypes, Status : Statuses] \ CandidateRows

Rows == CandidateRows \cup OtherRows

SeqsUpTo(S, n) == UNION {[1..k -> S] : k \in 0..n}

\* Registry tables pd.read_csv may return.
AllTables == SeqsUpTo(Rows, MaxRows)

Row(a, lng, lat, t, s) ==
  [ATCOCode |-> a, Longitude |-> lng, Latitude |-> lat, BusStopType |-> t, Status |-> s]

SampleTables ==
  { <<>>,
    <<Row(<<"A">>, "-3.19", "55.95", "MKD", "active")>>,
    <<Row(<<"B">>, "-3.19", NaN, "CUS", "active"),
      Row(<<"A">>, "-3.19", "55.95", "CUS", "active")>> }

\* ---------------------------------------------------------------- text
ColumnNames == {"stop_id", "trip_id"}
StopIds == {"A", "B"}

RECURSIVE Join(_)
Join(fields) ==
  IF Len(fields) = 0 THEN <<>>
  ELSE IF Len(fields) = 1 THEN <<fields[1]>>
  ELSE <<fields[1], ",">> \o Join(Tail(fields))

Line(fields) == Join(fields) \o <<"\n">>

HeaderLines == {Line(fs) : fs \in SeqsUpTo(ColumnNames, MaxCols) \ {<<>>}}
DataLines == {Line(fs) : fs \in SeqsUpTo(StopIds, MaxCols)}

\* stop_times.txt as the sequence of its lines: the empty file, a header
\* without line terminator and nothing after it, or a header and data lines.
AllFiles ==
  {<<>>}
  \cup {<<Join(fs)>> : fs \in SeqsUpTo(ColumnNames, MaxCols) \ {<<>>}}
  \cup {<<h>> \o ls : h \in HeaderLines, ls \in SeqsUpTo(DataLines, MaxLines)}

GoodHeader == <<"stop_id", ",", "trip_id", "\n">>
SampleFiles ==
  { <<GoodHeader>>,
    <<GoodHeader, <<"A", ",", "B", "\n">>>>,
    <<GoodHeader, <<"B", ",", "A", "\n">>>>,
    <<GoodHeader, <<"A", ",", "B", "\n">>, <<"B", ",", "A", "\n">>, <<"A", ",", "A", "\n">>>>,
    <<<<"trip_id", "\n">>>>,
    <<<<"trip_id", ",", "stop_id", "\n">>, <<"A", ",", "B", "\n">>>>,
    <<<<"trip_id", ",", "stop_id", ",", "trip_id", "\n">>, <<"A", ",", "B", ",", "A", "\n">>, <<"A", "\n">>>> }

\* str.split(","): the fields between the delimiters, at least one.
RECURSIVE SplitFrom(_, _)
SplitFrom(text, cur) ==
  IF Len(text) = 0 THEN <<cur>>
  ELSE IF Head(text) = "," THEN <<cur>> \o SplitFrom(Tail(text), <<>>)
  ELSE SplitFrom(Tail(text), Append(cur, Head(text)))

Split(text) == SplitFrom(text, <<>>)

\* f.readline(): the next line, or the empty text at end of file.
Readline(file) == IF Len(file) = 0 THEN <<>> ELSE Head(file)

\* list.index(x): the 0-based position of the first element equal to x, or
\* -1 for the ValueError the program raises.
Index(list, x) ==
  IF \E k \in 1..Len(list) : list[k] = x
    THEN (CHOOSE k \in 1..Len(list) : list[k] = x /\ \A j \in 1..(k-1) : list[j] # x) - 1
    ELSE -1


\* ---------------------------------------------------------------- inputs
EnvNames ==
  {"BUNNY_STORAGE_KEY", "BUNNY_KEY", "DFT_BUS_DATA_USERNAME", "DFT_BUS_DATA_PASSWORD"}

\* The command line: --naptan-csv (absent, a local path, an https URL),
\* --dft-gtfs (absent, a local path), --scratch (absent, a directory).
CliArgs ==
  [naptan_csv : {None, "local", "https"}, dft_gtfs : {None, "local"},
   scratch : {None, "given"}]

\* lambda_handler passes the scratch directory alone.
LambdaArgs == [naptan_csv |-> None, dft_gtfs |-> None, scratch |-> None]

GEOJSON == "bus_stops_uk_geojson.json"
PMTILES == "bus_stops_uk.pmtiles"
NAPTAN_CSV == "naptan.csv"
GTFS_ZIP == "itm_all_gtfs.zip"

\* What a --scratch directory may hold before the run.
StaleEntries == {{}, {GEOJSON}, {GEOJSON, "subdir"}}

\* ---------------------------------------------------------------- state
VARIABLES
  pc,                  \* position of the process
  entry, env, args,    \* entry point, environment, arguments
  error,               \* the exception that ended the run, or "none"
  io,                  \* the kinds of I/O performed so far
  tmp_dir, tmp_files,  \* the TemporaryDirectory and its entries
  user_dir, user_files,\* the --scratch directory and its entries
  handles,             \* file and archive handles currently open
  stop_times,          \* stop_times.txt as read from the archive
  stream,              \* lines of stop_times.txt not yet read
  stop_id_i, stops_in_gtfs,
  naptan, bus_stops,
  i,                   \* rows of bus_stops the loop has consumed
  skipped_stop_count, wrote_count,
  doc,                 \* content of the geometry file
  progress,            \* percentages printed by the progress line
  returncode,          \* exit status of the tile builder, -1 before it ran
  trace                \* stages in the order they happened

cfg == <<entry, env, args>>
fsv == <<tmp_dir, tmp_files, user_dir, user_files>>
extr == <<stop_times, stream, stop_id_i, stops_in_gtfs>>
filt == <<naptan, bus_stops, i, skipped_stop_count, wrote_count, doc, progress>>
vars == <<pc, cfg, error, io, fsv, handles, extr, filt, returncode, trace>>

\* ---------------------------------------------------------------- helpers
\* Module level of main.py: the two publishing secrets.
MissingBunny(e) ==
  IF "BUNNY_STORAGE_KEY" \notin e THEN "Missing BUNNY_STORAGE_KEY"
  ELSE IF "BUNNY_KEY" \notin e THEN "Missing BUNNY_KEY"
  ELSE "none"

\* main(): the two portal credentials, read when the feed is to be downloaded.
MissingDft(e) ==
  IF "DFT_BUS_DATA_USERNAME" \notin e THEN "Missing DFT_BUS_DATA_USERNAME"
  ELSE IF "DFT_BUS_DATA_PASSWORD" \notin e THEN "Missing DFT_BUS_DATA_PASSWORD"
  ELSE "none"

\* The directory main() receives as scratch: "user" for --scratch, else the
\* TemporaryDirectory.
ScratchDirAlwaysTmp(a) == "tmp"
ScratchDir(a) == IF a.scratch # None THEN "user" ELSE "tmp"

\* naptan_csv_path None becomes the API URL; an https path is downloaded.
NeedsDownload(a) == a.naptan_csv = None \/ a.naptan_csv = "https"

PreFilterNoStatus(table) ==
  SelectSeq(table, LAMBDA r : r.BusStopType \in {"MKD", "CUS"})
PreFilter(table) ==
  SelectSeq(table, LAMBDA r : r.BusStopType \in {"MKD", "CUS"} /\ r.Status = "active")

InGtfsAlways(row, gtfs) == TRUE
InGtfs(row, gtfs) == row.ATCOCode \in gtfs

CoordsMissingLngOnly(row) == row.Longitude = NaN
CoordsMissing(row) == row.Longitude = NaN \/ row.Latitude = NaN

\* main.py:100-101: the skip counter after a row was dropped for a null
\* coordinate (it is left as it was).
SkippedAfterNullCounted(n) == n + 1
SkippedAfterNull(n) == n

Tok(t) == [tok |-> t]
IsFeature(x) == x.tok = "Feature"

\* The separator written before the feature of the row at enumerate index n.
Prefix(n) == IF n # 0 THEN <<Tok("COMMA"), Tok("NL")>> ELSE <<Tok("NL")>>

\* json.dumps(point)
Point(row) ==
  [tok |-> "Feature", properties |-> [ATCOCode |-> row.ATCOCode],
   coordinates |-> <<row.Longitude, row.Latitude>>]

\* round(n / d * 100) for d > 0: to the nearest integer, ties to even.
Percent(n, d) ==
  LET q == (n * 100) \div d
      r == (n * 100) % d
  IN IF 2 * r > d \/ (2 * r = d /\ q % 2 = 1) THEN q + 1 ELSE q

InScratch(name) ==
  IF ScratchDir(args) = "user"
    THEN user_files' = user_files \cup {name} /\ UNCHANGED <<tmp_dir, tmp_files, user_dir>>
    ELSE tmp_files' = tmp_files \cup {name} /\ UNCHANGED <<tmp_dir, user_dir, user_files>>

\* An exception leaves main().
Raise(e) == error' = e /\ pc' = "main_raised"

\* ---------------------------------------------------------------- initial states
InitRest ==
  /\ pc = "import"
  /\ error = "none"
  /\ io = {}
  /\ tmp_dir = "none" /\ tmp_files = {}
  /\ handles = {}
  /\ stop_times = <<>> /\ stream = <<>> /\ stop_id_i = -1 /\ stops_in_gtfs = {}
  /\ naptan = <<>> /\ bus_stops = <<>>
  /\ i = 0 /\ skipped_stop_count = 0 /\ wrote_count = 0
  /\ doc = <<>> /\ progress = <<>>
  /\ returncode = -1
  /\ trace = <<>>

\* Process start, under either entry point, any environment and any arguments.
Init ==
  /\ env \in SUBSET EnvNames
  /\ \/ entry = "lambda" /\ args = LambdaArgs
     \/ entry = "cli" /\ args \in CliArgs
  /\ IF args.scratch = None
       THEN user_dir = "absent" /\ user_files = {}
       ELSE \/ user_dir = "absent" /\ user_files = {}
            \/ user_dir = "exists" /\ user_files \in StaleEntries
  /\ InitRest

\* Process start of a command line run on local inputs with every value set.
InitLocal ==
  /\ env = EnvNames
  /\ entry = "cli"
  /\ args = [naptan_csv |-> "local", dft_gtfs |-> "local", scratch |-> None]
  /\ user_dir = "absent" /\ user_files = {}
  /\ InitRest

\* ---------------------------------------------------------------- actions
\* main.py:26-31, run when the module is imported (by either entry point).
Import ==
  /\ pc = "import"
  /\ IF MissingBunny(env) # "none"
       THEN error' = MissingBunny(env) /\ pc' = "exited"
       ELSE error' = error /\ pc' = "entry"
  /\ UNCHANGED <<cfg, io, fsv, handles, extr, filt, returncode, trace>>

\* main.py:233-246 and lambda_function.py:7: the TemporaryDirectory is made;
\* a --scratch directory is cleared, or created if absent.
EnterScratch ==
  /\ pc = "entry"
  /\ tmp_dir' = "exists" /\ tmp_files' = {}
  /\ IF args.scratch # None
       THEN IF user_dir = "exists"
              THEN /\ user_files' = {} /\ user_dir' = user_dir
                   /\ io' = io \cup {"mkdtemp", "clear_scratch"}
              ELSE /\ user_dir' = "exists" /\ user_files' = {}
                   /\ io' = io \cup {"mkdtemp", "makedirs"}
       ELSE /\ UNCHANGED <<user_dir, user_files>>
            /\ io' = io \cup {"mkdtemp"}
  /\ pc' = "main"
  /\ UNCHANGED <<cfg, error, handles, extr, filt, returncode, trace>>

\* main.py:35-44: the registry is downloaded into scratch unless a local path
\* was given.  requests.get may raise (no file yet); raise_for_status raises
\* after naptan.csv was opened for writing.
FetchNaptan ==
  /\ pc = "main"
  /\ IF ~NeedsDownload(args)
       THEN pc' = "gtfs" /\ UNCHANGED <<error, io, fsv>>
       ELSE \E outcome \in {"ok", "connection_error", "http_error"} :
              /\ IF outcome = "connection_error"
                   THEN io' = io \cup {"download_naptan"} /\ UNCHANGED fsv
                   ELSE io' = io \cup {"download_naptan", "file_write"} /\ InScratch(NAPTAN_CSV)
              /\ IF outcome = "ok"
                   THEN pc' = "gtfs" /\ error' = error
                   ELSE Raise("naptan download failed")
  /\ UNCHANGED <<cfg, handles, extr, filt, returncode, trace>>

\* main.py:46-56
GtfsCreds ==
  /\ pc = "gtfs"
  /\ IF args.dft_gtfs # None
       THEN pc' = "open_zip" /\ error' = error
       ELSE IF MissingDft(env) # "none"
         THEN Raise(MissingDft(env))
         ELSE pc' = "download_gtfs" /\ error' = error
  /\ UNCHANGED <<cfg, io, fsv, handles, extr, filt, returncode, trace>>

\* main.py:57, 167-220: the login may fail (no file), the transfer may fail
\* (a partial itm_all_gtfs.zip).
DownloadGtfs ==
  /\ pc = "download_gtfs"
  /\ \E outcome \in {"ok", "login_error", "transfer_error"} :
       /\ IF outcome = "login_error"
            THEN io' = io \cup {"download_gtfs"} /\ UNCHANGED fsv
            ELSE io' = io \cup {"download_gtfs", "file_write"} /\ InScratch(GTFS_ZIP)
       /\ IF outcome = "ok"
            THEN pc' = "open_zip" /\ error' = error
            ELSE Raise("gtfs download failed")
  /\ UNCHANGED <<cfg, handles, extr, filt, returncode, trace>>

\* main.py:60-66: the archive and its member are opened, the header is read
\* and split, stop_id is looked up.  Leaving the with block closes the
\* archive; nothing closes the member stream.
OpenZip(file) ==
  /\ pc = "open_zip"
  /\ stop_times' = file
  /\ LET header == Split(Readline(file))
         idx == Index(header, <<"stop_id">>)
     IN IF idx = -1
          THEN /\ handles' = handles \cup {"stop_times.txt"}
               /\ Raise("ValueError")
               /\ UNCHANGED <<stream, stop_id_i>>
          ELSE /\ handles' = handles \cup {"gtfs_zip", "stop_times.txt"}
               /\ stop_id_i' = idx
               /\ stream' = Tail(file)
               /\ pc' = "read_lines" /\ error' = error
  /\ stops_in_gtfs' = {}
  /\ UNCHANGED <<cfg, io, fsv, filt, returncode, trace>>

\* main.py:68-71, one line.
ReadLine ==
  /\ pc = "read_lines"
  /\ stream # <<>>
  /\ LET fields == Split(Head(stream))
     IN IF stop_id_i + 1 > Len(fields)
          THEN /\ handles' = handles \ {"gtfs_zip"}
               /\ Raise("IndexError")
               /\ UNCHANGED <<stream, stops_in_gtfs>>
          ELSE /\ stops_in_gtfs' = stops_in_gtfs \cup {fields[stop_id_i + 1]}
               /\ stream' = Tail(stream)
               /\ UNCHANGED <<pc, error, handles>>
  /\ UNCHANGED <<cfg, io, fsv, stop_times, stop_id_i, filt, returncode, trace>>

\* main.py:68-72: the stream is exhausted and the with block is left.
EndLines ==
  /\ pc = "read_lines"
  /\ stream = <<>>
  /\ handles' = handles \ {"gtfs_zip"}
  /\ trace' = Append(trace, "extracted")
  /\ pc' = "read_csv"
  /\ UNCHANGED <<cfg, error, io, fsv, extr, filt, returncode>>

\* main.py:74-89: the table is loaded, the candidates selected, the counters set.
ReadCsv(table) ==
  /\ pc = "read_csv"
  /\ naptan' = table
  /\ bus_stops' = PreFilter(table)
  /\ i' = 0 /\ skipped_stop_count' = 0 /\ wrote_count' = 0
  /\ trace' = Append(trace, "loaded")
  /\ pc' = "open_geojson"
  /\ UNCHANGED <<cfg, error, io, fsv, handles, extr, doc, progress, returncode>>

\* main.py:74-80: pd.read_csv raises (file unreadable, a declared column absent).
ReadCsvError ==
  /\ pc = "read_csv"
  /\ Raise("read_csv failed")
  /\ UNCHANGED <<cfg, io, fsv, handles, extr, filt, returncode, trace>>

\* main.py:90-91: the geometry file is opened and the opening text written.
\* Binding f anew drops the last reference to the member stream of
\* stop_times.txt: a reference-counting runtime closes it here, another
\* runtime at some later collection.
OpenGeojson ==
  /\ pc = "open_geojson"
  /\ \E collected \in BOOLEAN :
       handles' = (IF collected THEN handles \ {"stop_times.txt"} ELSE handles) \cup {"geojson"}
  /\ doc' = <<Tok("HEAD")>>
  /\ InScratch(GEOJSON)
  /\ io' = io \cup {"file_write"}
  /\ trace' = Append(trace, "filter_start")
  /\ pc' = "loop"
  /\ UNCHANGED <<cfg, error, extr, naptan, bus_stops, i, skipped_stop_count, wrote_count, progress, returncode>>

\* main.py:93-123, one iteration.
FilterRow ==
  /\ pc = "loop"
  /\ i < Len(bus_stops)
  /\ LET row == bus_stops[i + 1]
         approx_row_count == Cardinality(stops_in_gtfs)
     IN IF ~InGtfs(row, stops_in_gtfs)
          THEN /\ skipped_stop_count' = skipped_stop_count + 1
               /\ UNCHANGED <<pc, error, handles, wrote_count, doc, progress>>
          ELSE IF CoordsMissing(row)
            THEN /\ skipped_stop_count' = SkippedAfterNull(skipped_stop_count)
                 /\ UNCHANGED <<pc, error, handles, wrote_count, doc, progress>>
            ELSE /\ doc' = doc \o Prefix(i) \o <<Point(row)>>
                 /\ wrote_count' = wrote_count + 1
                 /\ skipped_stop_count' = skipped_stop_count
                 /\ IF (wrote_count + 1) % ProgressEvery = 0
                      THEN IF approx_row_count = 0
                             THEN /\ handles' = handles \ {"geojson"}
                                  /\ Raise("ZeroDivisionError")
                                  /\ progress' = progress
                             ELSE /\ progress' = Append(progress, Percent(wrote_count + 1, approx_row_count))
                                  /\ UNCHANGED <<pc, error, handles>>
                      ELSE UNCHANGED <<pc, error, handles, progress>>
  /\ i' = i + 1
  /\ UNCHANGED <<cfg, io, fsv, extr, naptan, bus_stops, returncode, trace>>

\* main.py:119, 125: a write to the geometry file raises OSError (the disk is
\* full); the with block closes the file and the document stays truncated.
WriteError ==
  /\ pc = "loop"
  /\ \/ i = Len(bus_stops)
     \/ /\ i < Len(bus_stops)
        /\ InGtfs(bus_stops[i + 1], stops_in_gtfs)
        /\ ~CoordsMissing(bus_stops[i + 1])
  /\ handles' = handles \ {"geojson"}
  /\ Raise("OSError")
  /\ UNCHANGED <<cfg, io, fsv, extr, filt, returncode, trace>>

\* main.py:125-127: the closing text is written and the file closed.
CloseGeojson ==
  /\ pc = "loop"
  /\ i = Len(bus_stops)
  /\ doc' = doc \o <<Tok("NL"), Tok("CLOSE"), Tok("NL")>>
  /\ handles' = handles \ {"geojson"}
  /\ trace' = Append(trace, "geojson_closed")
  /\ pc' = "tippecanoe"
  /\ UNCHANGED <<cfg, error, io, fsv, extr, naptan, bus_stops, i, skipped_stop_count, wrote_count, progress, returncode>>

\* subprocess.run(..., check=True): where main() continues after the tile
\* builder exited with status rc.
AfterTippecanoeUnchecked(rc) == "upload"
AfterTippecanoe(rc) == IF rc # 0 THEN "main_raised" ELSE "upload"

ScratchFiles == IF ScratchDir(args) = "user" THEN user_files ELSE tmp_files

\* main.py:129-143: the tile builder succeeds, or fails with or without
\* leaving a partial tile package behind.
Tippecanoe ==
  /\ pc = "tippecanoe"
  /\ trace' = Append(trace, "tippecanoe")
  /\ \E outcome \in {"ok", "failed", "failed_partial"} :
       /\ returncode' = (IF outcome = "ok" THEN 0 ELSE 1)
       /\ IF outcome = "failed" THEN UNCHANGED fsv ELSE InScratch(PMTILES)
  /\ pc' = AfterTippecanoe(returncode')
  /\ error' = (IF pc' = "main_raised" THEN "CalledProcessError" ELSE error)
  /\ io' = io \cup {"tippecanoe"}
  /\ UNCHANGED <<cfg, handles, extr, filt>>

\* main.py:145-154: the tile package is opened and sent; on success the file
\* stays open for the purge.
Upload ==
  /\ pc = "upload"
  /\ IF PMTILES \notin ScratchFiles
       THEN Raise("FileNotFoundError") /\ UNCHANGED <<handles, io, trace>>
       ELSE /\ trace' = Append(trace, "upload")
            /\ io' = io \cup {"upload"}
            /\ \E ok \in BOOLEAN :
                 IF ok
                   THEN handles' = handles \cup {"pmtiles"} /\ pc' = "purge" /\ error' = error
                   ELSE handles' = handles /\ Raise("upload failed")
  /\ UNCHANGED <<cfg, fsv, extr, filt, returncode>>

\* main.py:156-164
Purge ==
  /\ pc = "purge"
  /\ trace' = Append(trace, "purge")
  /\ io' = io \cup {"purge"}
  /\ handles' = handles \ {"pmtiles"}
  /\ \E ok \in BOOLEAN :
       IF ok THEN pc' = "main_done" /\ error' = error ELSE Raise("purge failed")
  /\ UNCHANGED <<cfg, fsv, extr, filt, returncode>>

\* main.py:233, 252 and lambda_function.py:7-8: leaving the with block
\* removes the TemporaryDirectory, on return and on an exception alike.
ExitScratch ==
  /\ pc \in {"main_done", "main_raised"}
  /\ tmp_dir' = "removed" /\ tmp_files' = {}
  /\ pc' = "exited"
  /\ UNCHANGED <<cfg, error, io, user_dir, user_files, handles, extr, filt, returncode, trace>>

\* ---------------------------------------------------------------- specifications
LocalSteps ==
  \/ Import
  \/ EnterScratch
  \/ FetchNaptan
  \/ GtfsCreds
  \/ ReadLine
  \/ EndLines
  \/ ReadCsvError
  \/ OpenGeojson
  \/ FilterRow
  \/ WriteError
  \/ CloseGeojson
  \/ Tippecanoe
  \/ Upload
  \/ Purge
  \/ ExitScratch

OpenSampleZip == pc = "open_zip" /\ \E file \in SampleFiles : OpenZip(file)
OpenAnyZip == pc = "open_zip" /\ \E file \in AllFiles : OpenZip(file)
ReadSampleCsv == pc = "read_csv" /\ \E table \in SampleTables : ReadCsv(table)
ReadAnyCsv == pc = "read_csv" /\ \E table \in AllTables : ReadCsv(table)

\* Every entry point, environment and argument list, on sample inputs.
Next == LocalSteps \/ DownloadGtfs \/ OpenSampleZip \/ ReadSampleCsv
Spec == Init /\ [][Next]_vars

\* Every bounded stop_times.txt, in a run on local inputs (which never
\* downloads the feed).
NextExtract == LocalSteps \/ OpenAnyZip \/ ReadSampleCsv
SpecExtract == InitLocal /\ [][NextExtract]_vars

\* Every bounded registry table, in a run on local inputs.
NextFilter == LocalSteps \/ OpenSampleZip \/ ReadAnyCsv
SpecFilter == InitLocal /\ [][NextFilter]_vars

\* ---------------------------------------------------------------- properties
Has(ev) == \E k \in 1..Len(trace) : trace[k] = ev

\* The loop of main.py:93 has consumed every candidate row.
LoopFinished == Has("filter_start") /\ i = Len(bus_stops)

Features(d) == SelectSeq(d, IsFeature)

\* The document as JSON, line breaks being insignificant: the opening text,
\* features separated by single commas, the closing text.
ValidJSON(d) ==
  LET t == SelectSeq(d, LAMBDA x : x.tok # "NL")
      m == SubSeq(t, 2, Len(t) - 1)
  IN /\ Len(t) >= 2
     /\ t[1].tok = "HEAD"
     /\ t[Len(t)].tok = "CLOSE"
     /\ \/ Len(m) = 0
        \/ /\ Len(m) % 2 = 1
           /\ \A k \in 1..Len(m) : m[k].tok = (IF k % 2 = 1 THEN "Feature" ELSE "COMMA")

\* The separator discipline: a bare line break before the first feature,
\* a comma and a line break before every later one.
RECURSIVE Separated(_, _)
Separated(fs, first) ==
  IF Len(fs) = 0 THEN <<>>
  ELSE (IF first THEN <<Tok("NL")>> ELSE <<Tok("COMMA"), Tok("NL")>>)
       \o <<Head(fs)>> \o Separated(Tail(fs), FALSE)

DocumentOf(fs) ==
  <<Tok("HEAD")>> \o Separated(fs, TRUE) \o <<Tok("NL"), Tok("CLOSE"), Tok("NL")>>

IsCandidate(r) == r.BusStopType \in {"MKD", "CUS"} /\ r.Status = "active"
HasNullCoordinate(r) == r.Longitude = NaN \/ r.Latitude = NaN
IsMember(r) == r.ATCOCode \in stops_in_gtfs
IsEligible(r) == IsCandidate(r) /\ IsMember(r) /\ ~HasNullCoordinate(r)

Count(table, P(_)) == Cardinality({k \in 1..Len(table) : P(table[k])})

RECURSIVE PointsOf(_)
PointsOf(rows) ==
  IF Len(rows) = 0 THEN <<>>
  ELSE <<[tok |-> "Feature", properties |-> [ATCOCode |-> Head(rows).ATCOCode],
          coordinates |-> <<Head(rows).Longitude, Head(rows).Latitude>>]>>
       \o PointsOf(Tail(rows))

\* C1: once the geometry file has received its closing text, the first
\* feature in it is preceded by a bare line break and every later one by a
\* comma and a line break, and the document is valid JSON, whatever rows
\* were skipped or dropped before the first feature.
C1_SeparatorsGiveValidJson ==
  Has("geojson_closed") => doc = DocumentOf(Features(doc)) /\ ValidJSON(doc)

\* C2: the features of the finished document are, in table order, exactly one
\* per registry row that is MKD or CUS, active, in the membership set and has
\* both coordinates; no other row produces any.
C2_FeatureIffEligible ==
  Has("geojson_closed") => Features(doc) = PointsOf(SelectSeq(naptan, IsEligible))

C2_Witness ==
  /\ Has("geojson_closed")
  /\ Len(naptan) = 2
  /\ IsEligible(naptan[2]) /\ ~IsCandidate(naptan[1]) /\ IsMember(naptan[1])
  /\ Len(Features(doc)) = 1

\* C3 as stated: when the loop finishes, wrote_count + skipped_stop_count is
\* at most the number of candidate rows, and equal to it iff no candidate row
\* has a null coordinate.
C3_EqualityIffNoNullCandidate ==
  LoopFinished =>
    /\ wrote_count + skipped_stop_count <= Count(naptan, IsCandidate)
    /\ (wrote_count + skipped_stop_count = Count(naptan, IsCandidate))
         <=> (Count(naptan, LAMBDA r : IsCandidate(r) /\ HasNullCoordinate(r)) = 0)

\* C3 amended: ... and equal to it iff no candidate row whose ATCOCode is in
\* the membership set has a null coordinate.
C3_EqualityIffNoNullMember ==
  LoopFinished =>
    /\ wrote_count + skipped_stop_count <= Count(naptan, IsCandidate)
    /\ (wrote_count + skipped_stop_count = Count(naptan, IsCandidate))
         <=> (Count(naptan, LAMBDA r : IsCandidate(r) /\ IsMember(r) /\ HasNullCoordinate(r)) = 0)

C3_Witness ==
  /\ LoopFinished
  /\ Len(bus_stops) = 2
  /\ ~IsMember(bus_stops[1]) /\ HasNullCoordinate(bus_stops[1])
  /\ IsMember(bus_stops[2]) /\ ~HasNullCoordinate(bus_stops[2])
  /\ wrote_count + skipped_stop_count = 2

\* C4: after every iteration the rows written, the rows skipped for
\* membership and the member rows dropped for a null coordinate add up to the
\* rows consumed, and when the loop finishes to the number of candidate rows;
\* skipped_stop_count counts the candidate rows absent from the membership
\* set and nothing else.
C4_CountsAddUp ==
  Has("filter_start") =>
    /\ i <= Len(bus_stops)
    /\ wrote_count + skipped_stop_count
         + Count(SubSeq(bus_stops, 1, i), LAMBDA r : IsMember(r) /\ HasNullCoordinate(r)) = i
    /\ skipped_stop_count = Count(SubSeq(bus_stops, 1, i), LAMBDA r : ~IsMember(r))
    /\ LoopFinished =>
         /\ wrote_count + skipped_stop_count
              + Count(naptan, LAMBDA r : IsCandidate(r) /\ IsMember(r) /\ HasNullCoordinate(r))
              = Count(naptan, IsCandidate)
         /\ skipped_stop_count = Count(naptan, LAMBDA r : IsCandidate(r) /\ ~IsMember(r))

C4_Witness ==
  /\ LoopFinished
  /\ Len(naptan) = 2 /\ Len(bus_stops) = 1
  /\ IsMember(bus_stops[1]) /\ HasNullCoordinate(bus_stops[1])
  /\ wrote_count = 0 /\ skipped_stop_count = 0

\* C5: with an empty membership set no feature is written, every candidate
\* row is counted as skipped, the progress line is never evaluated, and the
\* closed document is the opening text followed by the closing text, valid
\* JSON with an empty features array.
C5_EmptyMembership ==
  (Has("filter_start") /\ stops_in_gtfs = {}) =>
    /\ wrote_count = 0
    /\ Features(doc) = <<>>
    /\ progress = <<>> /\ error # "ZeroDivisionError"
    /\ LoopFinished => skipped_stop_count = Count(naptan, IsCandidate)
    /\ Has("geojson_closed") =>
         /\ doc = <<Tok("HEAD"), Tok("NL"), Tok("CLOSE"), Tok("NL")>>
         /\ ValidJSON(doc)

C5_Witness ==
  /\ Has("geojson_closed") /\ stops_in_gtfs = {}
  /\ Len(bus_stops) = 2 /\ skipped_stop_count = 2
  /\ ~HasNullCoordinate(bus_stops[1])

\* The columns a header line names: its fields, the line terminator apart.
HeaderColumns(file) ==
  LET line == Readline(file)
      text == IF Len(line) > 0 /\ line[Len(line)] = "\n" THEN SubSeq(line, 1, Len(line) - 1) ELSE line
  IN Split(text)

NamesStopId(file) == \E k \in 1..Len(HeaderColumns(file)) : HeaderColumns(file)[k] = <<"stop_id">>

\* Some data line has no field at the position of the stop_id column.
HasShortLine(file) ==
  /\ NamesStopId(file)
  /\ \E k \in 2..Len(file) : Len(Split(file[k])) <= Index(HeaderColumns(file), <<"stop_id">>)

ExtractionAborted == error \in {"ValueError", "IndexError"}

\* C6: the extraction stage aborts exactly when the header of stop_times.txt
\* does not name the column stop_id or some data line has no field at that
\* column's position (a header that names stop_id, in any position including
\* the last, does not abort); after such an abort the geometry file is never
\* opened and the tile builder and the upload are never invoked.
C6_AbortsExactlyOnSchemaOrRecordError ==
  /\ (ExtractionAborted \/ Has("extracted")) =>
       (ExtractionAborted <=> (~NamesStopId(stop_times) \/ HasShortLine(stop_times)))
  /\ ExtractionAborted =>
       /\ ~Has("extracted") /\ ~Has("filter_start")
       /\ doc = <<>> /\ GEOJSON \notin tmp_files \cup user_files
       /\ io \cap {"tippecanoe", "upload", "purge"} = {}

MissingValueErrors ==
  {"Missing BUNNY_STORAGE_KEY", "Missing BUNNY_KEY",
   "Missing DFT_BUS_DATA_USERNAME", "Missing DFT_BUS_DATA_PASSWORD"}

\* C7: a run that fails for a missing environment value has, up to that
\* failure, cleared no scratch directory, downloaded no registry and written
\* no file.
C7_MissingValueFailsBeforeIO ==
  error \in MissingValueErrors =>
    io \cap {"clear_scratch", "download_naptan", "file_write"} = {}

StageOrder ==
  <<"extracted", "loaded", "filter_start", "geojson_closed", "tippecanoe", "upload", "purge">>

IsPrefix(a, b) == Len(a) <= Len(b) /\ a = SubSeq(b, 1, Len(a))

\* C8: the stages happen in the order extraction, registry load, filtering,
\* closing of the geometry file, tile builder, upload, purge; the upload is
\* performed only after every earlier stage completed without error, and the
\* purge only after the upload succeeded.
C8_StagesInOrder ==
  /\ IsPrefix(trace, StageOrder)
  /\ Has("geojson_closed") => LoopFinished /\ "geojson" \notin handles
  /\ Has("upload") => returncode = 0
  /\ error \notin {"none", "upload failed", "purge failed"} => ~Has("upload")
  /\ error \notin {"none", "purge failed"} => ~Has("purge")

C8_Witness == pc = "exited" /\ error = "none" /\ trace = StageOrder

\* The handles the stage at a position holds open.
StageHandles(p) ==
  CASE p = "read_lines" -> {"gtfs_zip", "stop_times.txt"}
    [] p = "loop" -> {"geojson"}
    [] p = "purge" -> {"pmtiles"}
    [] OTHER -> {}

\* C9: no handle is open outside the stage that opened it, on normal
\* completion and after an error alike.
C9_HandlesClosedOnStageExit == handles \subseteq StageHandles(pc)

\* A run failed with the geometry file opened and not completed.
FailedTruncated == error # "none" /\ Has("filter_start") /\ ~Has("geojson_closed")

\* C10 as stated: after a run that failed with a truncated geometry file has
\* exited, that file is in neither scratch directory.
C10_TruncatedFileRemoved ==
  (pc = "exited" /\ FailedTruncated) => GEOJSON \notin tmp_files \cup user_files

\* C10 amended: after such a run has exited, the truncated file is gone with
\* the temporary directory when no --scratch was given; in a directory given
\* with --scratch it is still there.
C10_RemovedOnlyWithTemporaryScratch ==
  (pc = "exited" /\ FailedTruncated) =>
    /\ tmp_dir = "removed" /\ tmp_files = {}
    /\ args.scratch = None => GEOJSON \notin user_files
    /\ args.scratch # None => user_dir = "exists" /\ GEOJSON \in user_files

C10_Witness ==
  /\ pc = "exited" /\ FailedTruncated
  /\ args.scratch = None /\ entry = "lambda"
  /\ wrote_count = 1

====
